---- MODULE Spec2Model ----
(***************************************************************************)
(* Model of tls_debug.rs: the fmt::Debug implementations of the parsed TLS *)
(* structures.  Every implementation is a pure function from a borrowed    *)
(* structure to text.  Text is a TLA+ string, built with \o exactly as the *)
(* format strings of the source build it.  A behaviour of the model is one *)
(* render call: Init draws the structure to render, the action of its type *)
(* writes the rendered text to `out`.                                      *)
(***************************************************************************)
EXTENDS Integers, Sequences, FiniteSets, TLC

VARIABLES
    ty,     \* the type of the structure: which Debug implementation runs
    self,   \* the structure the caller asks to render (borrowed, never changed)
    out,    \* what the formatter has written
    pc      \* "call": fmt not yet run, "done": fmt returned Ok(())

vars == <<ty, self, out, pc>>

----------------------------------------------------------------------------
(* Bounds of the model *)

MaxBlobLen == 2     \* longest byte sequence drawn for a &[u8] field
MaxListLen == 2     \* longest list drawn for a Vec<_> field

----------------------------------------------------------------------------
(* Text helpers *)

\* s contains sub as a contiguous substring
Contains(s, sub) ==
    \E i \in 0..(Len(s) - Len(sub)) : SubSeq(s, i + 1, i + Len(sub)) = sub


\* the offset of the first occurrence of sub in s; Len(s) when there is none
IndexOf(s, sub) ==
    LET hits == {i \in 0..(Len(s) - Len(sub)) : SubSeq(s, i + 1, i + Len(sub)) = sub}
    IN IF hits = {} THEN Len(s)
       ELSE CHOOSE i \in hits : \A j \in hits : i <= j

\* s cut at every occurrence of sep; the empty text has no pieces
RECURSIVE Split(_, _)
Split(s, sep) ==
    IF Len(s) = 0 THEN <<>>
    ELSE LET i == IndexOf(s, sep) IN
         IF i = Len(s) THEN <<s>>
         ELSE <<SubSeq(s, 1, i)>> \o
              (IF i + Len(sep) = Len(s) THEN <<"">>
               ELSE Split(SubSeq(s, i + Len(sep) + 1, Len(s)), sep))

StartsWith(s, p) == Len(s) >= Len(p) /\ SubSeq(s, 1, Len(p)) = p
EndsWith(s, p) == Len(s) >= Len(p) /\ SubSeq(s, Len(s) - Len(p) + 1, Len(s)) = p

\* all sequences over S of length at most n
SeqsUpTo(S, n) == UNION {[1..k -> S] : k \in 0..n}

----------------------------------------------------------------------------
(* core::fmt of integers, as the format directives of the source use it *)

HexDigitChars == "0123456789abcdef"
HexDigit(n) == SubSeq(HexDigitChars, n + 1, n + 1)
DecDigitChars == "0123456789"
DecDigit(n) == SubSeq(DecDigitChars, n + 1, n + 1)

\* {:x} : lowercase hexadecimal, no padding
RECURSIVE LowerHex(_)
LowerHex(n) ==
    IF n < 16 THEN HexDigit(n) ELSE LowerHex(n \div 16) \o HexDigit(n % 16)

\* {} and {:?} of an unsigned integer: decimal
RECURSIVE Display(_)
Display(n) ==
    IF n < 10 THEN DecDigit(n) ELSE Display(n \div 10) \o DecDigit(n % 10)

\* the 0<width> flag: pad on the left with '0' up to width w, never truncate
RECURSIVE ZeroPad(_, _)
ZeroPad(s, w) == IF Len(s) >= w THEN s ELSE ZeroPad("0" \o s, w)

\* [T]::join(sep) on a Vec<String>
RECURSIVE Join(_, _)
Join(items, sep) ==
    IF Len(items) = 0 THEN ""
    ELSE IF Len(items) = 1 THEN items[1]
    ELSE items[1] \o sep \o Join(Tail(items), sep)

\* Option<T>
None == [some |-> FALSE]
Some(v) == [some |-> TRUE, v |-> v]
\* {:?} of Option<T>, given the Debug text of the payload
OptionDebug(o) == IF o.some THEN "Some(" \o o.v \o ")" ELSE "None"

\* {:?} of a slice or Vec, given the Debug text of every element
DebugList(items) == "[" \o Join(items, ", ") \o "]"

\* {:?} of &[u8] : the derived Debug of a slice of integers, decimal
DebugU8(b) == Display(b)
DebugBytes(data) == DebugList([i \in 1..Len(data) |-> DebugU8(data[i])])

\* fmt.debug_struct(name).field(..)...finish(), fields = <<name, text>> pairs
FieldText(f) == f[1] \o ": " \o f[2]
DebugStruct(name, fields) ==
    name \o " { " \o Join([i \in 1..Len(fields) |-> FieldText(fields[i])], ", ") \o " }"

\* {:?} of a char of a String (printable ASCII): the double quote and the
\* backslash are escaped with a backslash
EscapeChar(c) == IF c = "\"" THEN "\\\"" ELSE IF c = "\\" THEN "\\\\" ELSE c
RECURSIVE EscapeStr(_)
EscapeStr(s) ==
    IF Len(s) = 0 THEN "" ELSE EscapeChar(SubSeq(s, 1, 1)) \o EscapeStr(Tail(s))
\* {:?} of a String
DebugString(s) == "\"" \o EscapeStr(s) \o "\""
\* {:?} of a Vec<String>
DebugStrings(v) == DebugList([i \in 1..Len(v) |-> DebugString(v[i])])

\* the char of a printable ASCII byte: 0x20 .. 0x5f and 0x61 .. 0x7e
AsciiCharsLow ==
    " !\"#$%&'()*+,-./0123456789:;<=>?@ABCDEFGHIJKLMNOPQRSTUVWXYZ[\\]^_"
AsciiCharsHigh == "abcdefghijklmnopqrstuvwxyz{|}~"
AsciiChar(b) ==
    IF b < 96 THEN SubSeq(AsciiCharsLow, b - 31, b - 31)
    ELSE SubSeq(AsciiCharsHigh, b - 96, b - 96)

\* std::str::from_utf8 on the bytes the model draws for text: printable ASCII
\* bytes and 0xff.  0xff occurs in no UTF-8 encoding, so decoding succeeds
\* exactly when every byte is ASCII, and then yields one char per byte.
IsAscii(b) == b < 128
RECURSIVE AsciiText(_)
AsciiText(n) ==
    IF Len(n) = 0 THEN "" ELSE AsciiChar(n[1]) \o AsciiText(Tail(n))
from_utf8(n) ==
    IF \A i \in 1..Len(n) : IsAscii(n[i]) THEN Some(AsciiText(n)) ELSE None
\* Result::unwrap_or
unwrap_or(r, default) == IF r.some THEN r.v ELSE default

----------------------------------------------------------------------------
(* The registries the formatters consult.  They live in tls_ciphers.rs,    *)
(* tls_extensions.rs, tls_ec.rs, tls_sign_hash.rs and tls_alert.rs; the    *)
(* formatters only use their lookup: Some(entry) for a registered code,    *)
(* None for any other.  A few registered codes of each stand for all.      *)

\* TlsCipherSuite::from_id(id).map(|c| c.name)
TlsCipherSuite_from_id(id) ==
    CASE id = 4865  -> Some("TLS_AES_128_GCM_SHA256")                 \* 0x1301
      [] id = 47    -> Some("TLS_RSA_WITH_AES_128_CBC_SHA")           \* 0x002f
      [] id = 49199 -> Some("TLS_ECDHE_RSA_WITH_AES_128_GCM_SHA256")  \* 0xc02f
      [] OTHER      -> None

\* SignatureScheme::from_u16, as the Debug name of the variant
SignatureScheme_from_u16(d) ==
    CASE d = 1025 -> Some("rsa_pkcs1_sha256")          \* 0x0401
      [] d = 1027 -> Some("ecdsa_secp256r1_sha256")    \* 0x0403
      [] d = 2052 -> Some("rsa_pss_sha256")            \* 0x0804
      [] OTHER    -> None

\* NamedGroup::from_u16, as the Debug name of the variant
NamedGroup_from_u16(curve) ==
    CASE curve = 23 -> Some("Secp256r1")
      [] curve = 24 -> Some("Secp384r1")
      [] curve = 29 -> Some("EcdhX25519")
      [] OTHER      -> None

\* HashAlgorithm::from_u8, as the Debug name of the variant
HashAlgorithm_from_u8(h) ==
    CASE h = 1 -> Some("Md5")
      [] h = 2 -> Some("Sha1")
      [] h = 4 -> Some("Sha256")
      [] h = 6 -> Some("Sha512")
      [] OTHER -> None

\* SignAlgorithm::from_u8, as the Debug name of the variant
SignAlgorithm_from_u8(s) ==
    CASE s = 1 -> Some("Rsa")
      [] s = 2 -> Some("Dsa")
      [] s = 3 -> Some("Ecdsa")
      [] OTHER -> None

\* TlsAlertSeverity::from_u8, as the Debug name of the variant
TlsAlertSeverity_from_u8(sev) ==
    CASE sev = 1 -> Some("Warning")
      [] sev = 2 -> Some("Fatal")
      [] OTHER   -> None

----------------------------------------------------------------------------
(* The scalar formatters *)

\* HexU8: write!(fmt,"0x{:02x}",self.d)
HexU8_fmt(d) == "0x" \o ZeroPad(LowerHex(d), 2)

\* a HexU16 that forgets the width: "0x{:x}"
HexU16_fmt_NoPad(d) == "0x" \o LowerHex(d)

\* HexU16: write!(fmt,"0x{:04x}",self.d)
HexU16_fmt(d) == "0x" \o ZeroPad(LowerHex(d), 4)

\* a HexSlice that joins like the derived Debug of a slice, with ", "
HexSlice_fmt_CommaJoin(d) == "[" \o Join([i \in 1..Len(d) |-> LowerHex(d[i])], ", ") \o "]"

\* HexSlice: every byte as {:02x}, joined by " ", in brackets
HexSliceByte(i) == ZeroPad(LowerHex(i), 2)
HexSlice_fmt(d) == "[" \o Join([i \in 1..Len(d) |-> HexSliceByte(d[i])], " ") \o "]"

\* a CipherU16 that drops the registry's name
CipherU16_fmt_NoName(d) == "0x" \o ZeroPad(LowerHex(d), 4)

\* CipherU16
CipherU16_fmt(d) ==
    LET c == TlsCipherSuite_from_id(d) IN
    IF c.some
    THEN "0x" \o ZeroPad(LowerHex(d), 4) \o "(" \o c.v \o ")"
    ELSE "0x" \o ZeroPad(LowerHex(d), 4) \o "(Unknown cipher)"

\* SignatureSchemeU16
SignatureSchemeU16_fmt(d) ==
    LET c == SignatureScheme_from_u16(d) IN
    IF c.some
    THEN "0x" \o ZeroPad(LowerHex(d), 4) \o "(" \o c.v \o ")"
    ELSE "0x" \o ZeroPad(LowerHex(d), 4) \o "(Unknown signature scheme)"

----------------------------------------------------------------------------
(* tls.rs *)

\* |u|{CipherU16{d:*u}} rendered by {:?}
CipherU16_of(u) == CipherU16_fmt(u)
\* |u|{HexU8{d:*u}} rendered by {:?}
HexU8_of(u) == HexU8_fmt(u)
\* opt.map(|o|{HexSlice{d:o}}), the payload rendered by {:?}
HexSlice_map(opt) == IF opt.some THEN Some(HexSlice_fmt(opt.v)) ELSE None

\* a cipher list collected back to front
v_ciphers_Reversed(s) ==
    [i \in 1..Len(s.ciphers) |-> CipherU16_of(s.ciphers[Len(s.ciphers) + 1 - i])]

v_ciphers(s) == [i \in 1..Len(s.ciphers) |-> CipherU16_of(s.ciphers[i])]
v_comp(s) == [i \in 1..Len(s.comp) |-> HexU8_of(s.comp[i])]

TlsClientHelloContents_fmt(s) ==
    DebugStruct("TlsClientHelloContents", <<
        <<"version", HexU16_fmt(s.version)>>,
        <<"rand_time", Display(s.rand_time)>>,
        <<"rand_data", HexSlice_fmt(s.rand_data)>>,
        <<"session_id", OptionDebug(HexSlice_map(s.session_id))>>,
        <<"ciphers", DebugList(v_ciphers(s))>>,
        <<"comp", DebugList(v_comp(s))>>,
        <<"ext", OptionDebug(HexSlice_map(s.ext))>> >>)

TlsServerHelloContents_fmt(s) ==
    DebugStruct("TlsServerHelloContents", <<
        <<"version", HexU16_fmt(s.version)>>,
        <<"rand_time", Display(s.rand_time)>>,
        <<"rand_data", HexSlice_fmt(s.rand_data)>>,
        <<"session_id", OptionDebug(HexSlice_map(s.session_id))>>,
        <<"cipher", CipherU16_fmt(s.cipher)>>,
        <<"compression", HexU8_fmt(s.compression)>>,
        <<"ext", OptionDebug(HexSlice_map(s.ext))>> >>)

TlsServerHelloV13Contents_fmt(s) ==
    DebugStruct("TlsServerHelloV13Contents", <<
        <<"version", HexU16_fmt(s.version)>>,
        <<"random", HexSlice_fmt(s.random)>>,
        <<"cipher", CipherU16_fmt(s.cipher)>>,
        <<"ext", OptionDebug(HexSlice_map(s.ext))>> >>)

\* a HelloRetryRequest that renders an absent ext like an empty one
TlsHelloRetryContents_fmt_Flatten(s) ==
    DebugStruct("TlsHelloRetryContents", <<
        <<"version", HexU16_fmt(s.version)>>,
        <<"ext", HexSlice_fmt(IF s.ext.some THEN s.ext.v ELSE <<>>)>> >>)

TlsHelloRetryContents_fmt(s) ==
    DebugStruct("TlsHelloRetryContents", <<
        <<"version", HexU16_fmt(s.version)>>,
        <<"ext", OptionDebug(HexSlice_map(s.ext))>> >>)

RawCertificate_fmt(s) ==
    DebugStruct("RawCertificate", << <<"data", HexSlice_fmt(s.data)>> >>)

TlsServerKeyExchangeContents_fmt(s) ==
    DebugStruct("TlsServerKeyExchangeContents",
        << <<"parameters", HexSlice_fmt(s.parameters)>> >>)

TlsClientKeyExchangeContents_fmt(s) ==
    DebugStruct("TlsClientKeyExchangeContents",
        << <<"parameters", HexSlice_fmt(s.parameters)>> >>)

\* a record header that passes record_type to the derived Debug of u8
TlsRecordHeader_fmt_DecimalType(s) ==
    DebugStruct("TlsRecordHeader", <<
        <<"type", Display(s.record_type)>>,
        <<"version", HexU16_fmt(s.version)>>,
        <<"len", Display(s.len)>> >>)

TlsRecordHeader_fmt(s) ==
    DebugStruct("TlsRecordHeader", <<
        <<"type", HexU8_fmt(s.record_type)>>,
        <<"version", HexU16_fmt(s.version)>>,
        <<"len", Display(s.len)>> >>)

----------------------------------------------------------------------------
(* tls_alert.rs *)

TlsMessageAlert_fmt(s) ==
    DebugStruct("TlsMessageAlert", <<
        <<"severity", OptionDebug(TlsAlertSeverity_from_u8(s.severity))>>,
        <<"code", Display(s.code)>> >>)

----------------------------------------------------------------------------
(* tls_dh.rs *)

\* a group size taken from the modulus instead of the generator
gs_FromP(s) == Len(s.dh_p) * 8

\* let gs = self.dh_g.len() * 8;
gs(s) == Len(s.dh_g) * 8

ServerDHParams_fmt(s) ==
    DebugStruct("ServerDHParams", <<
        <<"group size", Display(gs(s))>>,
        <<"dh_p", HexSlice_fmt(s.dh_p)>>,
        <<"dh_g", HexSlice_fmt(s.dh_g)>>,
        <<"dh_ys", HexSlice_fmt(s.dh_ys)>> >>)

----------------------------------------------------------------------------
(* tls_sign_hash.rs *)

HashSignAlgorithm_fmt(s) ==
    DebugStruct("HashSignAlgorithm", <<
        <<"hash", OptionDebug(HashAlgorithm_from_u8(s.hash))>>,
        <<"sign", OptionDebug(SignAlgorithm_from_u8(s.sign))>> >>)

\* alg is rendered by its own Debug, HashSignAlgorithm_fmt
DigitallySigned_fmt(s) ==
    DebugStruct("DigitallySigned", <<
        <<"alg", HashSignAlgorithm_fmt(s.alg)>>,
        <<"data", HexSlice_fmt(s.data)>> >>)

----------------------------------------------------------------------------
(* tls_extensions.rs : one operator per arm of the match in TlsExtension's *)
(* fmt that computes something, then the match itself                      *)

Utf8ErrorText == "<error decoding utf8 string>"

\* SNI: |&(ty,n)| format!("type=0x{:x},name={}", ty, s)
SniEntry(e) ==
    LET s == unwrap_or(from_utf8(e[2]), Utf8ErrorText) IN
    "type=0x" \o LowerHex(e[1]) \o ",name=" \o s
SniList(v) == [i \in 1..Len(v) |-> SniEntry(v[i])]

\* an unknown curve reported in hex only
CurveEntry_HexOnly(curve) ==
    LET n == NamedGroup_from_u16(curve) IN
    IF n.some THEN n.v ELSE "<Unknown curve 0x" \o LowerHex(curve) \o ">"

\* EllipticCurves: |&curve| match NamedGroup::from_u16(curve)
CurveEntry(curve) ==
    LET n == NamedGroup_from_u16(curve) IN
    IF n.some THEN n.v
    ELSE "<Unknown curve 0x" \o LowerHex(curve) \o "/" \o Display(curve) \o ">"
CurveList(v) == [i \in 1..Len(v) |-> CurveEntry(v[i])]

\* SignatureAlgorithms: |&(h,s)| (h2,s2), a pair of Strings
HashEntry(h) ==
    LET n == HashAlgorithm_from_u8(h) IN
    IF n.some THEN n.v
    ELSE "<Unknown hash 0x" \o LowerHex(h) \o "/" \o Display(h) \o ">"
SignEntry(s) ==
    LET n == SignAlgorithm_from_u8(s) IN
    IF n.some THEN n.v
    ELSE "<Unknown signature 0x" \o LowerHex(s) \o "/" \o Display(s) \o ">"
SigAlgEntry(p) == <<HashEntry(p[1]), SignEntry(p[2])>>
SigAlgList(v) == [i \in 1..Len(v) |-> SigAlgEntry(v[i])]
\* {:?} of (String, String)
DebugStringPair(p) == "(" \o DebugString(p[1]) \o ", " \o DebugString(p[2]) \o ")"
\* {:?} of a Vec<(String, String)>
DebugStringPairs(v) == DebugList([i \in 1..Len(v) |-> DebugStringPair(v[i])])

\* SupportedVersions: |c| format!("0x{:x}",c)
VersionEntry(c) == "0x" \o LowerHex(c)
VersionList(v) == [i \in 1..Len(v) |-> VersionEntry(v[i])]

\* an ALPN list that skips the entries it cannot decode
AlpnList_DropInvalid(v) ==
    LET ok(c) == from_utf8(c).some
        kept == SelectSeq(v, ok)
    IN [i \in 1..Len(kept) |-> from_utf8(kept[i]).v]

\* ALPN: |c| format!("{}", from_utf8(c).unwrap_or(..))
AlpnEntry(c) == unwrap_or(from_utf8(c), Utf8ErrorText)
AlpnList(v) == [i \in 1..Len(v) |-> AlpnEntry(v[i])]

TlsExtension_fmt(s) ==
    CASE s.variant = "SNI" ->
            "TlsExtension::SNI(" \o DebugStrings(SniList(s.v)) \o ")"
      [] s.variant = "MaxFragmentLength" ->
            "TlsExtension::MaxFragmentLength(" \o Display(s.l) \o ")"
      [] s.variant = "StatusRequest" ->
            "TlsExtension::StatusRequest(" \o DebugBytes(s.data) \o ")"
      [] s.variant = "EllipticCurves" ->
            "TlsExtension::EllipticCurves("
                \o DebugStrings(CurveList(s.v)) \o ")"
      [] s.variant = "EcPointFormats" ->
            "TlsExtension::EcPointFormats(" \o DebugBytes(s.v) \o ")"
      [] s.variant = "SignatureAlgorithms" ->
            "TlsExtension::SignatureAlgorithms("
                \o DebugStringPairs(SigAlgList(s.v)) \o ")"
      [] s.variant = "SessionTicket" ->
            "TlsExtension::SessionTicket(data=" \o DebugBytes(s.data) \o ")"
      [] s.variant = "KeyShare" ->
            "TlsExtension::KeyShare(data=" \o HexSlice_fmt(s.data) \o ")"
      [] s.variant = "PreSharedKey" ->
            "TlsExtension::PreSharedKey(data=" \o HexSlice_fmt(s.data) \o ")"
      [] s.variant = "EarlyData" ->
            "TlsExtension::EarlyData"
      [] s.variant = "SupportedVersions" ->
            "TlsExtension::SupportedVersions(v="
                \o DebugStrings(VersionList(s.v)) \o ")"
      [] s.variant = "Cookie" ->
            "TlsExtension::Cookie(data=" \o DebugBytes(s.data) \o ")"
      [] s.variant = "PskExchangeModes" ->
            "TlsExtension::PskExchangeModes(" \o DebugBytes(s.v) \o ")"
      [] s.variant = "Heartbeat" ->
            "TlsExtension::Heartbeat(mode=" \o Display(s.mode) \o ")"
      [] s.variant = "ALPN" ->
            "TlsExtension::ALPN(" \o DebugStrings(AlpnList(s.v)) \o ")"
      [] s.variant = "SignedCertificateTimestamp" ->
            "TlsExtension::SignedCertificateTimestamp(data=" \o DebugBytes(s.data) \o ")"
      [] s.variant = "Padding" ->
            "TlsExtension::Padding(data=" \o DebugBytes(s.data) \o ")"
      [] s.variant = "EncryptThenMac" ->
            "TlsExtension::EncryptThenMac"
      [] s.variant = "ExtendedMasterSecret" ->
            "TlsExtension::ExtendedMasterSecret"
      [] s.variant = "NextProtocolNegotiation" ->
            "TlsExtension::NextProtocolNegotiation"
      [] s.variant = "RenegotiationInfo" ->
            "TlsExtension::RenegotiationInfo(data=" \o DebugBytes(s.data) \o ")"
      [] s.variant = "Unknown" ->
            "TlsExtension::Unknown(id=0x" \o LowerHex(s.id)
                \o ",data=" \o DebugBytes(s.data) \o ")"

----------------------------------------------------------------------------
(* The structures a caller may hand to a formatter *)

U8 == 0..255
U16 == 0..65535

ByteSamples == {0, 1, 2, 16, 171, 255}
Blobs == SeqsUpTo(ByteSamples, MaxBlobLen)
SmallBlobs == SeqsUpTo({1, 171}, MaxBlobLen)
OptBlobs == {None} \cup {Some(b) : b \in SmallBlobs}

\* a 32-byte value, the size of a 256-bit group element
Blob32 == [i \in 1..32 |-> 2]

VersionSamples == {769, 772}                    \* 0x0301, 0x0304
RandTimeSamples == {0, 1500000000}
CipherSamples == {0, 47, 4865, 39321}           \* 0x0000 0x002f 0x1301 0x9999
SchemeSamples == {0, 1027, 2052, 39321}         \* 0x0000 0x0403 0x0804 0x9999
CurveSamples == {0, 23, 29, 39321}
HashSamples == {4, 6, 9, 238}                   \* 9 and 0xee are not registered
SignSamples == {1, 3, 9, 238}
SeveritySamples == {0, 1, 2, 16, 255}
AlertCodeSamples == {0, 10, 40, 255}

\* text as bytes: printable ASCII (a . - " \) and 0xff, which is never UTF-8
TextSamples ==
    { <<>>, <<104, 50>>, <<34, 92>>, <<255>>, <<97, 255>> }
SniTypeSamples == {0, 31}
SniSamples == (SniTypeSamples \X {<<97, 46, 98>>, <<255>>}) \cup {<<0, <<34, 92>>>>}

Variants ==
    { "SNI", "MaxFragmentLength", "StatusRequest", "EllipticCurves",
      "EcPointFormats", "SignatureAlgorithms", "SessionTicket", "KeyShare",
      "PreSharedKey", "EarlyData", "SupportedVersions", "Cookie",
      "PskExchangeModes", "Heartbeat", "ALPN", "SignedCertificateTimestamp",
      "Padding", "EncryptThenMac", "ExtendedMasterSecret",
      "NextProtocolNegotiation", "RenegotiationInfo", "Unknown" }

\* the byte-blob variants: TlsExtension::X(&[u8])
BlobVariants ==
    { "StatusRequest", "SessionTicket", "KeyShare", "PreSharedKey", "Cookie",
      "SignedCertificateTimestamp", "Padding", "RenegotiationInfo" }

\* the values of TlsExtension with a given tag
ExtInputs(variant) ==
    CASE variant = "SNI" ->
            [variant : {variant}, v : SeqsUpTo(SniSamples, MaxListLen)]
      [] variant = "MaxFragmentLength" ->
            [variant : {variant}, l : ByteSamples]
      [] variant = "EllipticCurves" ->
            [variant : {variant}, v : SeqsUpTo(CurveSamples, MaxListLen)]
      [] variant \in {"EcPointFormats", "PskExchangeModes"} ->
            [variant : {variant}, v : Blobs]
      [] variant = "SignatureAlgorithms" ->
            [variant : {variant}, v : SeqsUpTo(HashSamples \X SignSamples, MaxListLen)]
      [] variant = "SupportedVersions" ->
            [variant : {variant}, v : SeqsUpTo(VersionSamples \cup {10}, MaxListLen)]
      [] variant = "Heartbeat" ->
            [variant : {variant}, mode : ByteSamples]
      [] variant = "ALPN" ->
            [variant : {variant}, v : SeqsUpTo(TextSamples, MaxListLen)]
      [] variant \in BlobVariants ->
            [variant : {variant}, data : Blobs]
      [] variant = "Unknown" ->
            [variant : {variant}, id : {5, 68, 65535}, data : Blobs]
      [] OTHER ->
            [variant : {variant}]

Types ==
    { "HexU8", "HexU16", "HexSlice", "CipherU16", "SignatureSchemeU16",
      "TlsClientHelloContents", "TlsServerHelloContents",
      "TlsServerHelloV13Contents", "TlsHelloRetryContents", "RawCertificate",
      "TlsServerKeyExchangeContents", "TlsClientKeyExchangeContents",
      "TlsRecordHeader", "TlsMessageAlert", "ServerDHParams", "TlsExtension",
      "HashSignAlgorithm", "DigitallySigned" }

\* the values of type t the model draws
Inputs(t) ==
    CASE t = "HexU8" -> [d : U8]
      [] t = "HexU16" -> [d : U16]
      [] t = "HexSlice" -> [d : Blobs \cup {Blob32}]
      [] t = "CipherU16" -> [d : CipherSamples \cup {49199, 65535}]
      [] t = "SignatureSchemeU16" -> [d : SchemeSamples \cup {1025, 65535}]
      [] t = "TlsClientHelloContents" ->
            [ version : VersionSamples,
              rand_time : RandTimeSamples, rand_data : {<<171, 1>>},
              session_id : {None, Some(<<>>), Some(<<1, 171>>)},
              ciphers : SeqsUpTo(CipherSamples \ {0}, MaxListLen),
              comp : SeqsUpTo({0, 1}, MaxListLen),
              ext : {None, Some(<<0, 10>>)} ]
      [] t = "TlsServerHelloContents" ->
            [ version : VersionSamples,
              rand_time : RandTimeSamples, rand_data : {<<171, 1>>},
              session_id : OptBlobs, cipher : CipherSamples, compression : {0, 1},
              ext : {None, Some(<<>>), Some(<<1>>)} ]
      [] t = "TlsServerHelloV13Contents" ->
            [ version : VersionSamples, random : SmallBlobs,
              cipher : CipherSamples, ext : OptBlobs ]
      [] t = "TlsHelloRetryContents" ->
            [ version : VersionSamples \cup {0, 65535}, ext : OptBlobs ]
      [] t = "RawCertificate" -> [data : Blobs]
      [] t \in {"TlsServerKeyExchangeContents", "TlsClientKeyExchangeContents"} ->
            [parameters : Blobs]
      [] t = "TlsRecordHeader" ->
            [ record_type : {0, 22, 255}, version : VersionSamples \cup {0},
              len : {0, 5, 16384, 65535} ]
      [] t = "TlsMessageAlert" ->
            [severity : SeveritySamples, code : AlertCodeSamples]
      [] t = "ServerDHParams" ->
            [ dh_p : SmallBlobs \cup {Blob32}, dh_g : SmallBlobs \cup {Blob32},
              dh_ys : {<<>>, <<5>>} ]
      [] t = "HashSignAlgorithm" -> [hash : HashSamples, sign : SignSamples]
      [] t = "DigitallySigned" ->
            [alg : [hash : HashSamples, sign : SignSamples], data : SmallBlobs]

----------------------------------------------------------------------------
(* One render call *)

Init ==
    /\ ty \in Types
    /\ IF ty = "TlsExtension"
       THEN \E variant \in Variants : self \in ExtInputs(variant)
       ELSE self \in Inputs(ty)
    /\ out = ""
    /\ pc = "call"

FmtHexU8 ==
    /\ pc = "call"
    /\ ty = "HexU8"
    /\ out' = HexU8_fmt(self.d)
    /\ pc' = "done"
    /\ UNCHANGED <<ty, self>>

FmtHexU16 ==
    /\ pc = "call"
    /\ ty = "HexU16"
    /\ out' = HexU16_fmt(self.d)
    /\ pc' = "done"
    /\ UNCHANGED <<ty, self>>

FmtHexSlice ==
    /\ pc = "call"
    /\ ty = "HexSlice"
    /\ out' = HexSlice_fmt(self.d)
    /\ pc' = "done"
    /\ UNCHANGED <<ty, self>>

FmtCipherU16 ==
    /\ pc = "call"
    /\ ty = "CipherU16"
    /\ out' = CipherU16_fmt(self.d)
    /\ pc' = "done"
    /\ UNCHANGED <<ty, self>>

FmtSignatureSchemeU16 ==
    /\ pc = "call"
    /\ ty = "SignatureSchemeU16"
    /\ out' = SignatureSchemeU16_fmt(self.d)
    /\ pc' = "done"
    /\ UNCHANGED <<ty, self>>

FmtTlsClientHelloContents ==
    /\ pc = "call"
    /\ ty = "TlsClientHelloContents"
    /\ out' = TlsClientHelloContents_fmt(self)
    /\ pc' = "done"
    /\ UNCHANGED <<ty, self>>

FmtTlsServerHelloContents ==
    /\ pc = "call"
    /\ ty = "TlsServerHelloContents"
    /\ out' = TlsServerHelloContents_fmt(self)
    /\ pc' = "done"
    /\ UNCHANGED <<ty, self>>

FmtTlsServerHelloV13Contents ==
    /\ pc = "call"
    /\ ty = "TlsServerHelloV13Contents"
    /\ out' = TlsServerHelloV13Contents_fmt(self)
    /\ pc' = "done"
    /\ UNCHANGED <<ty, self>>

FmtTlsHelloRetryContents ==
    /\ pc = "call"
    /\ ty = "TlsHelloRetryContents"
    /\ out' = TlsHelloRetryContents_fmt(self)
    /\ pc' = "done"
    /\ UNCHANGED <<ty, self>>

FmtRawCertificate ==
    /\ pc = "call"
    /\ ty = "RawCertificate"
    /\ out' = RawCertificate_fmt(self)
    /\ pc' = "done"
    /\ UNCHANGED <<ty, self>>

FmtTlsServerKeyExchangeContents ==
    /\ pc = "call"
    /\ ty = "TlsServerKeyExchangeContents"
    /\ out' = TlsServerKeyExchangeContents_fmt(self)
    /\ pc' = "done"
    /\ UNCHANGED <<ty, self>>

FmtTlsClientKeyExchangeContents ==
    /\ pc = "call"
    /\ ty = "TlsClientKeyExchangeContents"
    /\ out' = TlsClientKeyExchangeContents_fmt(self)
    /\ pc' = "done"
    /\ UNCHANGED <<ty, self>>

FmtTlsRecordHeader ==
    /\ pc = "call"
    /\ ty = "TlsRecordHeader"
    /\ out' = TlsRecordHeader_fmt(self)
    /\ pc' = "done"
    /\ UNCHANGED <<ty, self>>

FmtTlsMessageAlert ==
    /\ pc = "call"
    /\ ty = "TlsMessageAlert"
    /\ out' = TlsMessageAlert_fmt(self)
    /\ pc' = "done"
    /\ UNCHANGED <<ty, self>>

FmtServerDHParams ==
    /\ pc = "call"
    /\ ty = "ServerDHParams"
    /\ out' = ServerDHParams_fmt(self)
    /\ pc' = "done"
    /\ UNCHANGED <<ty, self>>

FmtTlsExtension ==
    /\ pc = "call"
    /\ ty = "TlsExtension"
    /\ out' = TlsExtension_fmt(self)
    /\ pc' = "done"
    /\ UNCHANGED <<ty, self>>

FmtHashSignAlgorithm ==
    /\ pc = "call"
    /\ ty = "HashSignAlgorithm"
    /\ out' = HashSignAlgorithm_fmt(self)
    /\ pc' = "done"
    /\ UNCHANGED <<ty, self>>

FmtDigitallySigned ==
    /\ pc = "call"
    /\ ty = "DigitallySigned"
    /\ out' = DigitallySigned_fmt(self)
    /\ pc' = "done"
    /\ UNCHANGED <<ty, self>>

Next ==
    \/ FmtHexU8
    \/ FmtHexU16
    \/ FmtHexSlice
    \/ FmtCipherU16
    \/ FmtSignatureSchemeU16
    \/ FmtTlsClientHelloContents
    \/ FmtTlsServerHelloContents
    \/ FmtTlsServerHelloV13Contents
    \/ FmtTlsHelloRetryContents
    \/ FmtRawCertificate
    \/ FmtTlsServerKeyExchangeContents
    \/ FmtTlsClientKeyExchangeContents
    \/ FmtTlsRecordHeader
    \/ FmtTlsMessageAlert
    \/ FmtServerDHParams
    \/ FmtTlsExtension
    \/ FmtHashSignAlgorithm
    \/ FmtDigitallySigned

Spec == Init /\ [][Next]_vars

----------------------------------------------------------------------------
(* Properties.  Reading rendered text back: these definitions parse text,  *)
(* they share nothing with the formatters above.                           *)

Done(t) == pc = "done" /\ ty = t
DoneExt(variant) == Done("TlsExtension") /\ self.variant = variant

CharAt(s, i) == SubSeq(s, i, i)

IsLowerHexChar(c) ==
    c \in {"0", "1", "2", "3", "4", "5", "6", "7", "8", "9",
           "a", "b", "c", "d", "e", "f"}

HexCharValue(c) ==
    CASE c = "0" -> 0 [] c = "1" -> 1 [] c = "2" -> 2 [] c = "3" -> 3
      [] c = "4" -> 4 [] c = "5" -> 5 [] c = "6" -> 6 [] c = "7" -> 7
      [] c = "8" -> 8 [] c = "9" -> 9 [] c = "a" -> 10 [] c = "b" -> 11
      [] c = "c" -> 12 [] c = "d" -> 13 [] c = "e" -> 14 [] c = "f" -> 15

RECURSIVE HexValue(_)
HexValue(s) ==
    IF Len(s) = 0 THEN 0
    ELSE HexValue(SubSeq(s, 1, Len(s) - 1)) * 16 + HexCharValue(CharAt(s, Len(s)))

DecCharValue(c) ==
    CASE c = "0" -> 0 [] c = "1" -> 1 [] c = "2" -> 2 [] c = "3" -> 3
      [] c = "4" -> 4 [] c = "5" -> 5 [] c = "6" -> 6 [] c = "7" -> 7
      [] c = "8" -> 8 [] c = "9" -> 9

RECURSIVE DecValue(_)
DecValue(s) ==
    IF Len(s) = 0 THEN 0
    ELSE DecValue(SubSeq(s, 1, Len(s) - 1)) * 10 + DecCharValue(CharAt(s, Len(s)))

\* text is a bare decimal number, without sign or leading zeros, of value v
IsDecimalOf(text, v) ==
    /\ Len(text) >= 1
    /\ \A i \in 1..Len(text) :
            CharAt(text, i) \in {"0", "1", "2", "3", "4", "5", "6", "7", "8", "9"}
    /\ Len(text) > 1 => CharAt(text, 1) # "0"
    /\ DecValue(text) = v

\* text is exactly w lowercase hex digits whose value is v
IsHexOf(text, w, v) ==
    /\ Len(text) = w
    /\ \A i \in 1..w : IsLowerHexChar(CharAt(text, i))
    /\ HexValue(text) = v

\* text is "0x" followed by exactly w lowercase hex digits whose value is v
IsPrefixedHexOf(text, w, v) ==
    /\ Len(text) = 2 + w
    /\ SubSeq(text, 1, 2) = "0x"
    /\ IsHexOf(SubSeq(text, 3, 2 + w), w, v)

\* text is "[", the two-digit hex of every byte of b in order, single spaces
\* between them, "]"
IsHexListingOf(text, b) ==
    LET n == Len(b) IN
    /\ Len(text) = IF n = 0 THEN 2 ELSE 3 * n + 1
    /\ CharAt(text, 1) = "["
    /\ CharAt(text, Len(text)) = "]"
    /\ \A i \in 1..n : IsHexOf(SubSeq(text, 3 * i - 1, 3 * i), 2, b[i])
    /\ \A i \in 1..(n - 1) : CharAt(text, 3 * i + 1) = " "

\* C6: for every 8-bit v, HexU8 renders as 0x and exactly two lowercase hex
\* digits whose value is v; for every 16-bit v, HexU16 renders as 0x and
\* exactly four lowercase hex digits whose value is v.
C6_HexFixedWidth ==
    /\ Done("HexU8") => IsPrefixedHexOf(out, 2, self.d)
    /\ Done("HexU16") => IsPrefixedHexOf(out, 4, self.d)

\* a 16-bit value that needs two padding zeros has been rendered
C6_Witness == Done("HexU16") /\ self.d = 171 /\ out = "0x00ab"

\* C7: for every byte sequence b, HexSlice renders as [ , the two-digit
\* lowercase hex of every byte in order joined by single spaces, ] ; the empty
\* sequence renders as [].
C7_HexSliceListing ==
    Done("HexSlice") =>
        /\ IsHexListingOf(out, self.d)
        /\ self.d = <<>> => out = "[]"

\* a two-byte sequence whose second byte needs a padding zero has been rendered
C7_Witness == Done("HexSlice") /\ self.d = <<171, 1>> /\ out = "[ab 01]"

\* the text of the field `name` of a rendered struct: from after "name: " up
\* to the next field `next`, or to the closing brace when next is ""
FieldOf(name, next) ==
    LET from == IndexOf(out, name \o ": ") + Len(name) + 3
        stop == IF next = "" THEN Len(out) - 2 ELSE IndexOf(out, ", " \o next \o ": ")
    IN SubSeq(out, from, stop)

\* the elements of a rendered list "[a, b, c]"
ItemsOf(text) == Split(SubSeq(text, 2, Len(text) - 1), ", ")
IsBracketed(text) ==
    Len(text) >= 2 /\ CharAt(text, 1) = "[" /\ CharAt(text, Len(text)) = "]"

\* field text f is the explicit absent marker when o is absent, and the hex
\* listing of the bytes of o, wrapped as present, when o is present
OptionalFieldShown(f, o) ==
    IF o.some
    THEN /\ StartsWith(f, "Some(")
         /\ EndsWith(f, ")")
         /\ IsHexListingOf(SubSeq(f, 6, Len(f) - 1), o.v)
    ELSE f = "None"

\* C8: in the ClientHello, ServerHello, ServerHello-v1.3 and HelloRetryRequest
\* renderers an optional field (session_id, ext) renders as the absent marker
\* None exactly when it is absent and as Some(hex-bracketed bytes) when it is
\* present, so absent and present-but-empty never render alike.
C8_OptionalFields ==
    /\ Done("TlsClientHelloContents") =>
            /\ OptionalFieldShown(FieldOf("session_id", "ciphers"), self.session_id)
            /\ OptionalFieldShown(FieldOf("ext", ""), self.ext)
    /\ Done("TlsServerHelloContents") =>
            /\ OptionalFieldShown(FieldOf("session_id", "cipher"), self.session_id)
            /\ OptionalFieldShown(FieldOf("ext", ""), self.ext)
    /\ Done("TlsServerHelloV13Contents") =>
            OptionalFieldShown(FieldOf("ext", ""), self.ext)
    /\ Done("TlsHelloRetryContents") =>
            OptionalFieldShown(FieldOf("ext", ""), self.ext)

\* a ServerHello with a present but empty session_id and no ext has been rendered
C8_Witness ==
    /\ Done("TlsServerHelloContents")
    /\ self.session_id = Some(<<>>)
    /\ self.ext = None
    /\ Contains(out, "session_id: Some([])")
    /\ Contains(out, "ext: None }")

\* the text the claim gives for one cipher: 0x, four hex digits, then the
\* registry's name or the unknown-cipher marker in parentheses
IsCipherTextOf(text, c) ==
    LET r == TlsCipherSuite_from_id(c) IN
    /\ Len(text) > 6
    /\ IsPrefixedHexOf(SubSeq(text, 1, 6), 4, c)
    /\ SubSeq(text, 7, Len(text)) =
            "(" \o (IF r.some THEN r.v ELSE "Unknown cipher") \o ")"

\* C9: the ClientHello renderer shows the cipher list and the compression
\* list with one element per input code, in wire order, every cipher as
\* 0x<4 hex digits>(<name>) or 0x<4 hex digits>(Unknown cipher), every
\* compression method as 0x<2 hex digits>; ciphers [0x1301, 0x9999] show the
\* known name of 0x1301 followed by 0x9999 with the unknown-cipher marker.
C9_ClientHelloLists ==
    Done("TlsClientHelloContents") =>
        LET ciphers == FieldOf("ciphers", "comp")
            comp == FieldOf("comp", "ext")
        IN
        /\ IsBracketed(ciphers)
        /\ LET items == ItemsOf(ciphers) IN
           /\ Len(items) = Len(self.ciphers)
           /\ \A i \in 1..Len(self.ciphers) : IsCipherTextOf(items[i], self.ciphers[i])
        /\ IsBracketed(comp)
        /\ LET items == ItemsOf(comp) IN
           /\ Len(items) = Len(self.comp)
           /\ \A i \in 1..Len(self.comp) : IsPrefixedHexOf(items[i], 2, self.comp[i])
        /\ self.ciphers = <<4865, 39321>> =>
                Contains(out, "ciphers: [0x1301(TLS_AES_128_GCM_SHA256), 0x9999(Unknown cipher)],")

\* the ClientHello with ciphers [0x1301, 0x9999], no session id and no
\* extensions has been rendered
C9_Witness ==
    /\ Done("TlsClientHelloContents")
    /\ self.ciphers = <<4865, 39321>>
    /\ self.comp = <<1, 0>>
    /\ self.session_id = None
    /\ self.ext = None
    /\ Contains(out, "0x1301(TLS_AES_128_GCM_SHA256), 0x9999(Unknown cipher)")
    /\ Contains(out, "comp: [0x01, 0x00]")

\* C10: the ServerDHParams renderer shows a group size equal to the byte
\* length of dh_g times 8 (256 for a 32-byte dh_g), whatever dh_p is, and shows
\* it before dh_p, dh_g and dh_ys, which follow in that order as hex listings.
C10_GroupSize ==
    Done("ServerDHParams") =>
        LET size == FieldOf("group size", "dh_p") IN
        /\ StartsWith(out, "ServerDHParams { group size: ")
        /\ IsDecimalOf(size, Len(self.dh_g) * 8)
        /\ Len(self.dh_g) = 32 => size = "256"
        /\ IsHexListingOf(FieldOf("dh_p", "dh_g"), self.dh_p)
        /\ IsHexListingOf(FieldOf("dh_g", "dh_ys"), self.dh_g)
        /\ IsHexListingOf(FieldOf("dh_ys", ""), self.dh_ys)
        /\ IndexOf(out, "group size: ") < IndexOf(out, "dh_p: ")
        /\ IndexOf(out, "dh_p: ") < IndexOf(out, "dh_g: ")
        /\ IndexOf(out, "dh_g: ") < IndexOf(out, "dh_ys: ")
        /\ IndexOf(out, "dh_ys: ") < Len(out)

\* DH parameters with a 32-byte dh_g and a one-byte dh_p have been rendered
C10_Witness ==
    /\ Done("ServerDHParams")
    /\ Len(self.dh_g) = 32
    /\ Len(self.dh_p) = 1
    /\ Contains(out, "group size: 256, dh_p: [")

\* the bytes of a text entry decode: on the bytes the model draws, exactly
\* when none of them is 0xff
Decodes(n) == \A i \in 1..Len(n) : n[i] # 255

\* what the claim expects for one text entry: its own text, or the placeholder
ExpectedText(n) ==
    IF Decodes(n) THEN AsciiText(n) ELSE "<error decoding utf8 string>"
ExpectedAlpn(v) == [i \in 1..Len(v) |-> DebugString(ExpectedText(v[i]))]
ExpectedSni(v) ==
    [i \in 1..Len(v) |->
        DebugString("type=0x" \o LowerHex(v[i][1]) \o ",name=" \o ExpectedText(v[i][2]))]

\* what out holds between a leading prefix and the closing parenthesis
ArgumentOf(prefix) == SubSeq(out, Len(prefix) + 1, Len(out) - 1)

\* C5: rendering an SNI or ALPN extension decodes every list entry on its
\* own: an entry that is not valid UTF-8 is shown as the fixed placeholder,
\* every other entry as its own text; the render completes, and the output
\* list has exactly one entry per input entry, in input order.
C5_TextEntries ==
    /\ DoneExt("ALPN") =>
            /\ out = "TlsExtension::ALPN(" \o DebugList(ExpectedAlpn(self.v)) \o ")"
            /\ Len(ItemsOf(ArgumentOf("TlsExtension::ALPN("))) = Len(self.v)
    /\ DoneExt("SNI") =>
            /\ out = "TlsExtension::SNI(" \o DebugList(ExpectedSni(self.v)) \o ")"
            /\ Len(ItemsOf(ArgumentOf("TlsExtension::SNI("))) = Len(self.v)
    /\ pc = "call" /\ ty = "TlsExtension" /\ self.variant \in {"SNI", "ALPN"} =>
            ENABLED FmtTlsExtension

\* an ALPN list of one undecodable and one valid entry has been rendered
C5_Witness ==
    /\ DoneExt("ALPN")
    /\ self.v = << <<255>>, <<104, 50>> >>
    /\ out = "TlsExtension::ALPN([\"<error decoding utf8 string>\", \"h2\"])"

----------------------------------------------------------------------------
(* Registry codes: C1 and C2 *)

\* text names code c as unknown and keeps c in hexadecimal and in decimal
KeepsUnknown(text, c) ==
    /\ Contains(text, "Unknown")
    /\ Contains(text, "0x" \o LowerHex(c))
    /\ Contains(text, Display(c))

IsUnknownEntry(text, what, c) ==
    LET head == "\"<Unknown " \o what \o " 0x"
        slash == IndexOf(text, "/")
    IN
    /\ StartsWith(text, head)
    /\ EndsWith(text, ">\"")
    /\ slash < Len(text)
    /\ HexValue(SubSeq(text, Len(head) + 1, slash)) = c
    /\ \A i \in (Len(head) + 1)..slash : IsLowerHexChar(CharAt(text, i))
    /\ IsDecimalOf(SubSeq(text, slash + 2, Len(text) - 2), c)

\* text is 0x<4 hex digits of c>(<marker>) and nothing else: no decimal form
IsUnknownCode(text, marker, c) ==
    /\ Len(text) > 6
    /\ IsPrefixedHexOf(SubSeq(text, 1, 6), 4, c)
    /\ SubSeq(text, 7, Len(text)) = "(" \o marker \o ")"

ShowsNameAndHex(text, r, c) ==
    /\ Contains(text, r.v)
    /\ Contains(text, "0x" \o LowerHex(c)) \/ Contains(text, "0x" \o ZeroPad(LowerHex(c), 4))

\* C2 as stated: for every registry the renderers consult and every code c
\* the registry resolves, the rendered text of c holds both the registry's
\* symbolic name for c and the hexadecimal form of c.
C2_KnownShowsNameAndHex ==
    /\ Done("CipherU16") /\ TlsCipherSuite_from_id(self.d).some =>
            ShowsNameAndHex(out, TlsCipherSuite_from_id(self.d), self.d)
    /\ Done("SignatureSchemeU16") /\ SignatureScheme_from_u16(self.d).some =>
            ShowsNameAndHex(out, SignatureScheme_from_u16(self.d), self.d)
    /\ DoneExt("EllipticCurves") =>
            \A i \in 1..Len(self.v) :
                NamedGroup_from_u16(self.v[i]).some =>
                    ShowsNameAndHex(ItemsOf(ArgumentOf("TlsExtension::EllipticCurves("))[i],
                                    NamedGroup_from_u16(self.v[i]), self.v[i])
    /\ DoneExt("SignatureAlgorithms") =>
            \A i \in 1..Len(self.v) :
                /\ HashAlgorithm_from_u8(self.v[i][1]).some =>
                        ShowsNameAndHex(
                            ItemsOf(ArgumentOf("TlsExtension::SignatureAlgorithms("))[2 * i - 1],
                            HashAlgorithm_from_u8(self.v[i][1]), self.v[i][1])
                /\ SignAlgorithm_from_u8(self.v[i][2]).some =>
                        ShowsNameAndHex(
                            ItemsOf(ArgumentOf("TlsExtension::SignatureAlgorithms("))[2 * i],
                            SignAlgorithm_from_u8(self.v[i][2]), self.v[i][2])
    /\ Done("HashSignAlgorithm") /\ HashAlgorithm_from_u8(self.hash).some =>
            ShowsNameAndHex(FieldOf("hash", "sign"),
                            HashAlgorithm_from_u8(self.hash), self.hash)
    /\ Done("HashSignAlgorithm") /\ SignAlgorithm_from_u8(self.sign).some =>
            ShowsNameAndHex(FieldOf("sign", ""), SignAlgorithm_from_u8(self.sign), self.sign)
    /\ Done("TlsMessageAlert") /\ TlsAlertSeverity_from_u8(self.severity).some =>
            ShowsNameAndHex(FieldOf("severity", "code"),
                            TlsAlertSeverity_from_u8(self.severity), self.severity)

\* text is 0x<4 hex digits of c>(<name>)
IsNamedCode(text, r, c) ==
    /\ Len(text) > 6
    /\ IsPrefixedHexOf(SubSeq(text, 1, 6), 4, c)
    /\ SubSeq(text, 7, Len(text)) = "(" \o r.v \o ")"

\* C2, amended: a resolved code c always renders with the registry's
\* symbolic name; a cipher suite or signature scheme renders as
\* 0x<4 hex digits>(<name>), name and hexadecimal form; a named group, hash
\* algorithm or signature algorithm in the EllipticCurves and
\* SignatureAlgorithms extensions renders as the quoted name alone, and a hash,
\* sign or alert-severity code in HashSignAlgorithm and Alert renders as
\* Some(<name>), neither with any numeric form of c.
C2_KnownCodes ==
    /\ Done("CipherU16") /\ TlsCipherSuite_from_id(self.d).some =>
            IsNamedCode(out, TlsCipherSuite_from_id(self.d), self.d)
    /\ Done("SignatureSchemeU16") /\ SignatureScheme_from_u16(self.d).some =>
            IsNamedCode(out, SignatureScheme_from_u16(self.d), self.d)
    /\ DoneExt("EllipticCurves") =>
            LET items == ItemsOf(ArgumentOf("TlsExtension::EllipticCurves(")) IN
            /\ Len(items) = Len(self.v)
            /\ \A i \in 1..Len(self.v) :
                    NamedGroup_from_u16(self.v[i]).some =>
                        items[i] = "\"" \o NamedGroup_from_u16(self.v[i]).v \o "\""
    /\ DoneExt("SignatureAlgorithms") =>
            LET items == ItemsOf(ArgumentOf("TlsExtension::SignatureAlgorithms(")) IN
            /\ Len(items) = 2 * Len(self.v)
            /\ \A i \in 1..Len(self.v) :
                    /\ HashAlgorithm_from_u8(self.v[i][1]).some =>
                            items[2 * i - 1] =
                                "(\"" \o HashAlgorithm_from_u8(self.v[i][1]).v \o "\""
                    /\ SignAlgorithm_from_u8(self.v[i][2]).some =>
                            items[2 * i] =
                                "\"" \o SignAlgorithm_from_u8(self.v[i][2]).v \o "\")"
    /\ Done("HashSignAlgorithm") /\ HashAlgorithm_from_u8(self.hash).some =>
            FieldOf("hash", "sign") = "Some(" \o HashAlgorithm_from_u8(self.hash).v \o ")"
    /\ Done("HashSignAlgorithm") /\ SignAlgorithm_from_u8(self.sign).some =>
            FieldOf("sign", "") = "Some(" \o SignAlgorithm_from_u8(self.sign).v \o ")"
    /\ Done("TlsMessageAlert") /\ TlsAlertSeverity_from_u8(self.severity).some =>
            FieldOf("severity", "code") =
                "Some(" \o TlsAlertSeverity_from_u8(self.severity).v \o ")"

\* the registered cipher suite 0x1301 has been rendered
C2_Witness ==
    /\ Done("CipherU16")
    /\ self.d = 4865
    /\ out = "0x1301(TLS_AES_128_GCM_SHA256)"

----------------------------------------------------------------------------
(* Byte payloads and numeric fields: C3 and C4 *)

\* the bracketed payload a rendered extension ends with
PayloadOf == SubSeq(out, IndexOf(out, "[") + 1, Len(out) - 1)

\* C3: every byte-sequence payload a renderer shows, the payload of every
\* byte-blob extension variant and of the Unknown variant included, is a
\* bracketed, space-separated listing of two lowercase hex digits per byte;
\* Unknown(0x44, [0x01, 0x02]) shows the hex type id and the payload [01 02].
C3_BytesAsHexListing ==
    /\ Done("RawCertificate") => IsHexListingOf(FieldOf("data", ""), self.data)
    /\ Done("TlsServerKeyExchangeContents") =>
            IsHexListingOf(FieldOf("parameters", ""), self.parameters)
    /\ Done("TlsClientKeyExchangeContents") =>
            IsHexListingOf(FieldOf("parameters", ""), self.parameters)
    /\ Done("DigitallySigned") => IsHexListingOf(FieldOf("data", ""), self.data)
    /\ Done("TlsExtension") /\ self.variant \in BlobVariants =>
            IsHexListingOf(PayloadOf, self.data)
    /\ DoneExt("Unknown") =>
            /\ StartsWith(out, "TlsExtension::Unknown(id=0x" \o LowerHex(self.id) \o ",")
            /\ IsHexListingOf(PayloadOf, self.data)
            /\ self.id = 68 /\ self.data = <<1, 2>> =>
                    Contains(out, "0x44") /\ Contains(out, "[01 02]")

\* text is a hexadecimal number: 0x and lowercase hex digits of value v
IsHexNumberOf(text, v) ==
    /\ Len(text) > 2
    /\ SubSeq(text, 1, 2) = "0x"
    /\ IsHexOf(SubSeq(text, 3, Len(text)), Len(text) - 2, v)

\* text is a bracketed list whose i-th element is the hexadecimal number v[i]
IsHexList(text, v) ==
    /\ IsBracketed(text)
    /\ LET items == ItemsOf(text) IN
       /\ Len(items) = Len(v)
       /\ \A i \in 1..Len(v) : IsHexNumberOf(items[i], v[i])

\* text is a bracketed list whose i-th element is the bare decimal number v[i]
IsDecimalList(text, v) ==
    /\ IsBracketed(text)
    /\ LET items == ItemsOf(text) IN
       /\ Len(items) = Len(v)
       /\ \A i \in 1..Len(v) : IsDecimalOf(items[i], v[i])

====
